---- MODULE Spec2Model ----
(***************************************************************************)
(* The config-save server of src/server.py: an HTTPServer on port 3000     *)
(* whose Handler (a SimpleHTTPRequestHandler) adds do_POST:                *)
(* POST /save-config parses the body with json.loads and rewrites          *)
(* config.json with json.dump(indent=2).                                   *)
(*                                                                         *)
(* Text (request bodies, the file) is a sequence of lexical tokens: one    *)
(* token per JSON punctuation mark, literal or piece of whitespace.        *)
(***************************************************************************)
EXTENDS Integers, Sequences, FiniteSets, TLC

\* ------------------------------------------------------------------ bounds
\* every token sequence up to this length is a request body
MaxBodyLen == 1
\* a failing write leaves at most this many tokens of the new text behind
MaxPartial == 1

\* ------------------------------------------------------------------ tokens
WS == {" ", "\n", "  "}
StrLits == {"\"a\"", "\"b\""}
IntLits == {"0", "-0", "1", "2"}
FloatLits == {"1.0", "1E0", "1e400"}
\* the three names json.loads accepts beyond the JSON grammar
PyConstants == {"NaN", "Infinity", "-Infinity"}
\* a byte that is not UTF-8
BadByte == "\\xff"
EOF == ""

At(s, i) == IF i >= 1 /\ i <= Len(s) THEN s[i] ELSE EOF

RECURSIVE SkipWS(_, _)
\* json.decoder.WHITESPACE.match(s, i).end()
SkipWS(s, i) == IF At(s, i) \in WS THEN SkipWS(s, i + 1) ELSE i

\* ------------------------------------------------------------------ values
\* <<"null">>, <<"bool", b>>, <<"int", n>>, <<"float", tenths>>,
\* <<"inf", sign>>, <<"nan">>, <<"dec", literal>> (an exact decimal, kept
\* only by the reference reader), <<"str", s>>, <<"arr", items>>,
\* <<"obj", pairs>> with pairs a sequence of <<key, value>> in insertion order.
Null == <<"null">>

StrOf(tok) == IF tok = "\"a\"" THEN "a" ELSE "b"
Quote(s) == IF s = "a" THEN "\"a\"" ELSE "\"b\""

\* int(literal)
IntOf(tok) == CASE tok = "1" -> 1 [] tok = "2" -> 2 [] OTHER -> 0

\* The two readers of JSON text: Python's json module as the program calls
\* it (parse_constant and float() at their defaults), and RFC 8259.
Python == "python"
RFC8259 == "rfc8259"

\* float(literal): a double; out of range becomes inf
FloatOf(tok, dialect) ==
    CASE tok = "1e400" -> IF dialect = Python THEN <<"inf", 1>> ELSE <<"dec", tok>>
      [] OTHER -> <<"float", 10>>

\* json.decoder._CONSTANTS
ConstantOf(tok) ==
    CASE tok = "NaN" -> <<"nan">>
      [] tok = "Infinity" -> <<"inf", 1>>
      [] OTHER -> <<"inf", 0 - 1>>

Ok(v, j) == [ok |-> TRUE, val |-> v, end |-> j, msg |-> ""]
Fail(m) == [ok |-> FALSE, val |-> Null, end |-> 0, msg |-> m]

RECURSIVE DictSet(_, _, _, _)
\* d[k] = v on an insertion-ordered dict (i: the position examined)
DictSet(d, k, v, i) ==
    IF i > Len(d) THEN Append(d, <<k, v>>)
    ELSE IF d[i][1] = k THEN [d EXCEPT ![i] = <<k, v>>]
    ELSE DictSet(d, k, v, i + 1)

RECURSIVE scan_once(_, _, _)
RECURSIVE ArrayItems(_, _, _, _)
RECURSIVE ObjectItems(_, _, _, _)

\* json.decoder.JSONArray, the loop after the first value's position
ArrayItems(s, i, acc, dialect) ==
    LET r == scan_once(s, i, dialect) IN
    IF ~r.ok THEN r
    ELSE LET j == SkipWS(s, r.end)
             c == At(s, j)
         IN  IF c = "]" THEN Ok(<<"arr", Append(acc, r.val)>>, j + 1)
             ELSE IF c # "," THEN Fail("Expecting ',' delimiter")
             ELSE ArrayItems(s, SkipWS(s, j + 1), Append(acc, r.val), dialect)

\* json.decoder.JSONArray; i is the position after "["
JSONArray(s, i, dialect) ==
    LET j == SkipWS(s, i) IN
    IF At(s, j) = "]" THEN Ok(<<"arr", <<>>>>, j + 1)
    ELSE ArrayItems(s, j, <<>>, dialect)

\* json.decoder.JSONObject, the loop at a key's position
ObjectItems(s, i, acc, dialect) ==
    IF At(s, i) \notin StrLits
    THEN Fail("Expecting property name enclosed in double quotes")
    ELSE LET k == StrOf(s[i])
             j == SkipWS(s, i + 1)
         IN  IF At(s, j) # ":" THEN Fail("Expecting ':' delimiter")
             ELSE LET r == scan_once(s, SkipWS(s, j + 1), dialect) IN
                  IF ~r.ok THEN r
                  ELSE LET pairs == DictSet(acc, k, r.val, 1)
                           e == SkipWS(s, r.end)
                           c == At(s, e)
                       IN  IF c = "}" THEN Ok(<<"obj", pairs>>, e + 1)
                           ELSE IF c # "," THEN Fail("Expecting ',' delimiter")
                           ELSE ObjectItems(s, SkipWS(s, e + 1), pairs, dialect)

\* json.decoder.JSONObject; i is the position after "{"
JSONObject(s, i, dialect) ==
    LET j == SkipWS(s, i) IN
    IF At(s, j) = "}" THEN Ok(<<"obj", <<>>>>, j + 1)
    ELSE ObjectItems(s, j, <<>>, dialect)

\* json.scanner.py_make_scanner._scan_once
scan_once(s, i, dialect) ==
    LET c == At(s, i) IN
    CASE c \in StrLits -> Ok(<<"str", StrOf(c)>>, i + 1)
      [] c = "{" -> JSONObject(s, i + 1, dialect)
      [] c = "[" -> JSONArray(s, i + 1, dialect)
      [] c = "null" -> Ok(Null, i + 1)
      [] c = "true" -> Ok(<<"bool", TRUE>>, i + 1)
      [] c = "false" -> Ok(<<"bool", FALSE>>, i + 1)
      [] c \in IntLits -> Ok(<<"int", IntOf(c)>>, i + 1)
      [] c \in FloatLits -> Ok(FloatOf(c, dialect), i + 1)
      [] c \in PyConstants /\ dialect = Python -> Ok(ConstantOf(c), i + 1)
      [] OTHER -> Fail("Expecting value")

\* json.decoder.JSONDecoder.decode
decode(s, dialect) ==
    LET r == scan_once(s, SkipWS(s, 1), dialect) IN
    IF ~r.ok THEN r
    ELSE IF SkipWS(s, r.end) # Len(s) + 1 THEN Fail("Extra data")
    ELSE r

\* json.loads(str)
json_loads(s) == decode(s, Python)

\* bytes.decode('utf-8')
utf8_decode(bytes) ==
    IF \E i \in 1..Len(bytes) : bytes[i] = BadByte
    THEN [ok |-> FALSE, str |-> <<>>,
          msg |-> "'utf-8' codec can't decode byte 0xff"]
    ELSE [ok |-> TRUE, str |-> bytes, msg |-> ""]

\* ------------------------------------------------------------------ writer
RECURSIVE Indent(_)
Indent(level) == IF level = 0 THEN <<>> ELSE <<"  ">> \o Indent(level - 1)

\* json.encoder: newline_indent = '\n' + ' ' * (indent * level), indent = 2
NewlineIndent(level) == <<"\n">> \o Indent(level)

\* float.__repr__ as json.encoder.floatstr uses it
FloatRepr(v) ==
    CASE v[1] = "nan" -> "NaN"
      [] v[1] = "inf" -> IF v[2] > 0 THEN "Infinity" ELSE "-Infinity"
      [] OTHER -> ToString(v[2] \div 10) \o "." \o ToString(v[2] % 10)

RECURSIVE Encode(_, _)
RECURSIVE EncodeList(_, _, _)
RECURSIVE EncodeDict(_, _, _)

\* json.encoder._iterencode_list, items i.. of a non-empty list
EncodeList(items, i, level) ==
    Encode(items[i], level)
      \o (IF i = Len(items) THEN <<>>
          ELSE <<",">> \o NewlineIndent(level) \o EncodeList(items, i + 1, level))

\* json.encoder._iterencode_dict, pairs i.. of a non-empty dict
EncodeDict(pairs, i, level) ==
    <<Quote(pairs[i][1]), ":", " ">> \o Encode(pairs[i][2], level)
      \o (IF i = Len(pairs) THEN <<>>
          ELSE <<",">> \o NewlineIndent(level) \o EncodeDict(pairs, i + 1, level))

\* json.encoder._iterencode at nesting depth `level`
Encode(v, level) ==
    CASE v[1] = "null" -> <<"null">>
      [] v[1] = "bool" -> <<IF v[2] THEN "true" ELSE "false">>
      [] v[1] = "int" -> <<ToString(v[2])>>
      [] v[1] \in {"float", "inf", "nan"} -> <<FloatRepr(v)>>
      [] v[1] = "str" -> <<Quote(v[2])>>
      [] v[1] = "arr" ->
           IF v[2] = <<>> THEN <<"[", "]">>
           ELSE <<"[">> \o NewlineIndent(level + 1)
                  \o EncodeList(v[2], 1, level + 1)
                  \o NewlineIndent(level) \o <<"]">>
      [] OTHER ->
           IF v[2] = <<>> THEN <<"{", "}">>
           ELSE <<"{">> \o NewlineIndent(level + 1)
                  \o EncodeDict(v[2], 1, level + 1)
                  \o NewlineIndent(level) \o <<"}">>

\* the text json.dump(config, f, indent=2) writes
json_dump(config) == Encode(config, 0)

\* ------------------------------------------------------------------ HTTP
SaveRoute == "/save-config"
Paths == {SaveRoute, "/other", "/save-config/", "/config.json"}
Methods == {"GET", "HEAD", "POST", "PUT"}

\* the Content-Length header: absent, not a number, or a number
NoHeader == <<"absent", 0>>
NotANumber == <<"text", 0>>
Length(n) == <<"num", n>>

Request(m, p, cl, b) == [method |-> m, path |-> p, cl |-> cl, body |-> b]
NoRequest == Request("", "", NoHeader, <<>>)

Response(status, ctype, body) == [status |-> status, ctype |-> ctype, body |-> body]
\* the connection closed with nothing sent
NoResponse == Response(0, "", <<>>)
\* no exchange yet
Nothing == Response(0 - 1, "", <<>>)
\* lines 19-22
Success == Response(200, "application/json", <<"{\"success\": true}">>)
\* json.dumps({"error": str(e)})
ErrorBody(msg) == <<"{", "\"error\"", ":", " ", "\"" \o msg \o "\"", "}">>
\* an except clause that answers like the success path
FailureAs200(msg) == Response(200, "application/json", ErrorBody(msg))
\* lines 24-27
Failure(msg) == Response(500, "application/json", ErrorBody(msg))
\* lines 29-30
NotFound == Response(404, "", <<>>)

\* a route test that also takes the path with a trailing slash
RoutePrefix(path) == path \in {SaveRoute, "/save-config/"}
\* line 10: self.path == '/save-config'
RouteMatches(path) == path = SaveRoute

\* rfile.read(n) on a body of at least n tokens
Prefix(text, n) == SubSeq(text, 1, IF n < Len(text) THEN n ELSE Len(text))

\* ------------------------------------------------------------------ inputs
BodyAlphabet == {"[", "]", "{", "}", ",", "\"a\"", "1", "NaN", " ", "x"}
ShortBodies == UNION {[1..k -> BodyAlphabet] : k \in 0..MaxBodyLen}

DocA == <<"{", "\"a\"", ":", "1", "}">>
DocB == <<"{", "\"b\"", ":", "2", "}">>
DocAB == <<"{", "\"a\"", ":", "1", ",", "\"b\"", ":", "2", "}">>
ValidSamples ==
    {DocA, DocB, DocAB, <<"null">>, <<"1e400">>, <<"\"b\"">>,
     <<"{", "\"a\"", ":", "1", ",", "\"a\"", ":", "2", "}">>,
     <<"[", "1", ",", "2", "]">>,
     <<"[", "[", "1", "]", ",", "{", "\"a\"", ":", "[", "]", "}", "]">>,
     <<" ", "[", "\n", "]", " ">>,
     <<"[", "\"a\"", ",", "true", ",", "false", ",", "null", ",", "1E0", ",", "-0", "]">>,
     <<"{", "\"a\"", ":", "1e400", "}">>}
InvalidSamples ==
    {<<"[", "1", ",", "NaN", "]">>,
     <<"[", "1", ",", "]">>,
     <<"[", "1", "2", "]">>,
     <<"[", "1">>,
     <<"{", "\"a\"", ":", "1", "}", "x">>,
     <<"{", "\"a\"", "1", "}">>,
     <<"{", "1", ":", "1", "}">>,
     <<"{", "\"a\"", ":", "1", ",", "}">>,
     <<"{", "\"a\"", ":", "}">>,
     <<":">>, <<BadByte>>, <<"[", BadByte, "]">>,
     <<"x", " ", "x">>}
Bodies == ShortBodies \cup ValidSamples \cup InvalidSamples
SmallBodies == {<<>>, DocA, <<"x", " ", "x">>}

SaveRequests == {Request("POST", SaveRoute, Length(Len(b)), b) : b \in Bodies}
LengthRequests ==
    {Request("POST", SaveRoute, cl, b) :
        cl \in {NoHeader, NotANumber}, b \in SmallBodies}
      \cup {Request("POST", SaveRoute, Length(Len(b) - 1), b) :
              b \in {DocA, <<"1", "x">>}}
OtherPosts ==
    {Request("POST", p, cl, b) :
        p \in Paths \ {SaveRoute},
        cl \in {NoHeader, NotANumber, Length(0)}, b \in SmallBodies}
OtherMethods ==
    {Request(m, p, NoHeader, <<>>) : m \in Methods \ {"POST"}, p \in Paths}

\* lines 12-15 on every body the requests can deliver, and the text line 17
\* writes for it: post_data.decode('utf-8'), json.loads, json.dump
PostData ==
    {Prefix(r.body, r.cl[2]) :
        r \in {q \in SaveRequests \cup LengthRequests : q.cl[1] = "num"}}
Parsed == [b \in PostData |->
    LET u == utf8_decode(b) IN
    IF ~u.ok THEN [ok |-> FALSE, msg |-> u.msg, text |-> <<>>]
    ELSE LET p == json_loads(u.str) IN
         IF ~p.ok THEN [ok |-> FALSE, msg |-> p.msg, text |-> <<>>]
         ELSE [ok |-> TRUE, msg |-> "", text |-> json_dump(p.val)]]

\* ------------------------------------------------------------------ the file
\* config.json in the working directory: whether it exists, and its text
NoFile == [exists |-> FALSE, text |-> <<>>]

\* what the filesystem does to this request's open and writes
DiskOK == <<"ok", 0>>
OpenFails == <<"open_fails", 0>>
WriteFails(n) == <<"write_fails", n>>
DiskOutcomes == {DiskOK, OpenFails} \cup {WriteFails(n) : n \in 0..MaxPartial}

OpenError == "[Errno 13] Permission denied: 'config.json'"
WriteError == "[Errno 28] No space left on device"

\* open('config.json', 'r+') on a file made if missing: no truncation
open_rplus(f) == [exists |-> TRUE, text |-> f.text]

\* line 16, open('config.json', 'w'): creates the file or truncates it
open_w(f) == [exists |-> TRUE, text |-> <<>>]

\* the handle's writes, from its position 0, as they reach the file
Overwrite(f, text) ==
    [f EXCEPT !.text = text \o SubSeq(@, Len(text) + 1, Len(@))]

\* what line 17 and the closing flush get onto the disk
Written(text, d) == IF d = DiskOK THEN text ELSE Prefix(text, d[2])

\* the with-block of lines 16-17: open, json.dump, close.  An OSError at
\* open leaves the file alone; one during the writes or the closing flush
\* leaves what had reached the disk.
SaveFile(f, text, d) ==
    IF d = OpenFails THEN [file |-> f, ok |-> FALSE, msg |-> OpenError]
    ELSE [file |-> Overwrite(open_w(f), Written(text, d)),
          ok |-> d = DiskOK, msg |-> IF d = DiskOK THEN "" ELSE WriteError]

\* ------------------------------------------------------------------ handlers
\* what a handler run leaves: the file, the response, how much of the body
\* it read, and whether an exception left the handler
Outcome(f, resp, read, raised) ==
    [file |-> f, resp |-> resp, read |-> read, raised |-> raised]

\* lines 14-27: the try block and its except clause
TrySave(f, post_data, d) ==
    LET p == Parsed[post_data] IN
    IF ~p.ok THEN Outcome(f, Failure(p.msg), Len(post_data), FALSE)
    ELSE LET w == SaveFile(f, p.text, d) IN
         Outcome(w.file, IF w.ok THEN Success ELSE Failure(w.msg),
                 Len(post_data), FALSE)

\* Handler.do_POST, lines 9-30
do_POST(f, r, d) ==
    IF RouteMatches(r.path)
    THEN \* line 11: int(None) raises TypeError, int('abc') ValueError,
         \* both outside the try block
         IF r.cl[1] # "num" THEN Outcome(f, NoResponse, 0, TRUE)
         ELSE TrySave(f, Prefix(r.body, r.cl[2]), d)
    ELSE Outcome(f, NotFound, 0, FALSE)

\* http.server's send_error: an HTML page, not sent for HEAD
HtmlError(status, withBody) ==
    Response(status, "text/html;charset=utf-8",
             IF withBody THEN <<"<!DOCTYPE HTML>">> ELSE <<>>)

\* SimpleHTTPRequestHandler.do_GET / do_HEAD, inherited at line 8: serves
\* the files of the working directory, of which the model holds config.json
do_GET(f, r, withBody) ==
    IF r.path = "/config.json" /\ f.exists
    THEN Outcome(f, Response(200, "application/json",
                             IF withBody THEN f.text ELSE <<>>), 0, FALSE)
    ELSE Outcome(f, HtmlError(404, withBody), 0, FALSE)

\* a handler class with no do_GET and no do_HEAD
handle_one_request_base(f, r, d) ==
    IF r.method = "POST" THEN do_POST(f, r, d)
    ELSE Outcome(f, HtmlError(501, TRUE), 0, FALSE)

\* BaseHTTPRequestHandler.handle_one_request: dispatch on 'do_' + command
\* over the methods of Handler(SimpleHTTPRequestHandler), line 8
handle_one_request(f, r, d) ==
    CASE r.method = "POST" -> do_POST(f, r, d)
      [] r.method = "GET" -> do_GET(f, r, TRUE)
      [] r.method = "HEAD" -> do_GET(f, r, FALSE)
      [] OTHER -> Outcome(f, HtmlError(501, TRUE), 0, FALSE)

\* a server loop that an exception out of a handler ends
handle_error_exit(raised) == ~raised
\* socketserver's handle_error under the serve_forever of line 35: the
\* traceback is printed and the loop goes on
handle_error(raised) == TRUE

IsSave(r) == r.method = "POST" /\ r.path = SaveRoute
\* the bytes line 12 reads for a save with a numeric Content-Length
DataOf(r) == Prefix(r.body, r.cl[2])
\* whether the handler gets as far as opening the file
ReachesOpen(r) == IsSave(r) /\ r.cl[1] = "num" /\ Parsed[DataOf(r)].ok

\* ------------------------------------------------------------------ state
Clients == {1, 2}

VARIABLES
    file,      \* config.json
    running,   \* serve_forever is still in its loop
    req,       \* the request handled last
    disk,      \* what the filesystem did during it
    resp,      \* what was sent back for it
    consumed,  \* how many tokens of its body the handler read
    prev,      \* history: how the exchange before it ended, the file before it
    conn,      \* per client: its connection and the handler's position in it
    order,     \* history: the clients in the order their writes completed
    overlap    \* history: two requests were in flight at once

vars == <<file, running, req, disk, resp, consumed, prev, conn, order, overlap>>
seqVars == <<req, disk, resp, consumed, prev>>
concVars == <<conn, order, overlap>>

InitialFiles == {NoFile, [exists |-> TRUE, text |-> Parsed[DocB].text]}

Idle ==
    [pc |-> "idle", req |-> NoRequest, disk |-> DiskOK, data |-> <<>>,
     err |-> "", resp |-> Nothing, seen |-> NoFile]

Init ==
    /\ file \in InitialFiles
    /\ running = TRUE
    /\ req = NoRequest
    /\ disk = DiskOK
    /\ resp = Nothing
    /\ consumed = 0
    /\ prev = [kind |-> "none", file |-> NoFile]
    /\ conn = [k \in Clients |-> Idle]
    /\ order = <<>>
    /\ overlap = FALSE

\* ---------------------------------------------- one request after another
\* history: how the exchange before the last one ended
Kind(r, rsp) ==
    CASE r = NoRequest -> "none"
      [] rsp.status \in {0, 500} -> "failed"
      [] IsSave(r) /\ rsp.status = 200 -> "saved"
      [] OTHER -> "other"

\* socketserver.BaseServer._handle_request_noblock, called by the
\* serve_forever of line 35: one request handled to its end
Handle(r, d) ==
    /\ running
    /\ d # DiskOK => ReachesOpen(r)
    /\ LET o == handle_one_request(file, r, d) IN
       /\ file' = o.file
       /\ resp' = o.resp
       /\ consumed' = o.read
       /\ running' = handle_error(o.raised)
    /\ req' = r
    /\ disk' = d
    /\ prev' = [kind |-> Kind(req, resp), file |-> file]
    /\ UNCHANGED concVars

SaveConfig == \E r \in SaveRequests, d \in DiskOutcomes : Handle(r, d)
BadLength == \E r \in LengthRequests, d \in DiskOutcomes : Handle(r, d)
OtherPost == \E r \in OtherPosts : Handle(r, DiskOK)
OtherMethod == \E r \in OtherMethods : Handle(r, DiskOK)

Next == SaveConfig \/ BadLength \/ OtherPost \/ OtherMethod

Spec == Init /\ [][Next]_vars

\* ---------------------------------------------- two clients, line by line
ConcBodies == {DocA, DocB, DocAB, <<"x">>, <<"NaN">>}
ConcRequests ==
    {Request("POST", SaveRoute, Length(Len(b)), b) : b \in ConcBodies}
      \cup {Request("POST", SaveRoute, NoHeader, DocA),
            Request("POST", "/other", Length(Len(DocA)), DocA)}

InHandler == {"route", "length", "loads", "open", "dump", "respond", "except"}
InFlight == InHandler \cup {"sent"}

\* a ThreadingHTTPServer: a thread per connection
CanAcceptThreaded(c) == TRUE
\* line 35, HTTPServer.serve_forever: the loop takes the next connection
\* when the handler of the one before has returned
CanAccept(c) == \A j \in Clients : c[j].pc \notin InHandler

Goto(k, pc) == conn' = [conn EXCEPT ![k].pc = pc]
Finish(k, r) == conn' = [conn EXCEPT ![k].pc = "done", ![k].resp = r, ![k].seen = file]
Raise(k, msg) == conn' = [conn EXCEPT ![k].pc = "except", ![k].err = msg]

\* the client connects and sends its request
Send(k) ==
    /\ conn[k].pc = "idle"
    /\ \E r \in ConcRequests, d \in DiskOutcomes :
         /\ d # DiskOK => ReachesOpen(r)
         /\ conn' = [conn EXCEPT ![k].pc = "sent", ![k].req = r, ![k].disk = d]
    /\ overlap' = (overlap \/ \E j \in Clients \ {k} : conn[j].pc \in InFlight)
    /\ UNCHANGED <<file, running, order>>
    /\ UNCHANGED seqVars

\* serve_forever accepts the connection and calls do_POST
Accept(k) ==
    /\ running
    /\ conn[k].pc = "sent"
    /\ CanAccept(conn)
    /\ Goto(k, "route")
    /\ UNCHANGED <<file, running, order, overlap>>
    /\ UNCHANGED seqVars

\* line 10, and lines 29-30 for another path
Route(k) ==
    /\ conn[k].pc = "route"
    /\ IF RouteMatches(conn[k].req.path) THEN Goto(k, "length") ELSE Finish(k, NotFound)
    /\ UNCHANGED <<file, running, order, overlap>>
    /\ UNCHANGED seqVars

\* lines 11-12; an exception here leaves do_POST
ReadBody(k) ==
    /\ conn[k].pc = "length"
    /\ IF conn[k].req.cl[1] # "num"
       THEN Finish(k, NoResponse) /\ running' = handle_error(TRUE)
       ELSE /\ conn' = [conn EXCEPT ![k].pc = "loads", ![k].data = DataOf(conn[k].req)]
            /\ UNCHANGED running
    /\ UNCHANGED <<file, order, overlap>>
    /\ UNCHANGED seqVars

\* line 15
Loads(k) ==
    /\ conn[k].pc = "loads"
    /\ LET p == Parsed[conn[k].data] IN
       IF p.ok THEN Goto(k, "open") ELSE Raise(k, p.msg)
    /\ UNCHANGED <<file, running, order, overlap>>
    /\ UNCHANGED seqVars

\* line 16
Open(k) ==
    /\ conn[k].pc = "open"
    /\ IF conn[k].disk = OpenFails
       THEN Raise(k, OpenError) /\ UNCHANGED file
       ELSE Goto(k, "dump") /\ file' = open_w(file)
    /\ UNCHANGED <<running, order, overlap>>
    /\ UNCHANGED seqVars

\* line 17 and the end of the with-block: the text is written and flushed
Dump(k) ==
    /\ conn[k].pc = "dump"
    /\ file' = Overwrite(file, Written(Parsed[conn[k].data].text, conn[k].disk))
    /\ IF conn[k].disk = DiskOK
       THEN Goto(k, "respond") /\ order' = Append(order, k)
       ELSE Raise(k, WriteError) /\ UNCHANGED order
    /\ UNCHANGED <<running, overlap>>
    /\ UNCHANGED seqVars

\* lines 19-22
Respond(k) ==
    /\ conn[k].pc = "respond"
    /\ Finish(k, Success)
    /\ UNCHANGED <<file, running, order, overlap>>
    /\ UNCHANGED seqVars

\* lines 23-27
Except(k) ==
    /\ conn[k].pc = "except"
    /\ Finish(k, Failure(conn[k].err))
    /\ UNCHANGED <<file, running, order, overlap>>
    /\ UNCHANGED seqVars

NextConc ==
    \E k \in Clients :
        \/ Send(k) \/ Accept(k) \/ Route(k) \/ ReadBody(k) \/ Loads(k)
        \/ Open(k) \/ Dump(k) \/ Respond(k) \/ Except(k)

SpecConc == Init /\ [][NextConc]_vars

\* ------------------------------------------------------------------ reading back
\* whether a text is JSON by RFC 8259
IsJSONText(s) == decode(s, RFC8259).ok
\* what a JSON reader makes of a text
Document(s) == decode(s, RFC8259).val
\* whether request bytes are a JSON text
ValidBody(b) == utf8_decode(b).ok /\ IsJSONText(b)

Num(v) == IF v[1] = "int" THEN 10 * v[2] ELSE v[2]
Keys(pairs) == {pairs[i][1] : i \in 1..Len(pairs)}
RECURSIVE Lookup(_, _, _)
Lookup(pairs, k, i) == IF pairs[i][1] = k THEN pairs[i][2] ELSE Lookup(pairs, k, i + 1)

RECURSIVE DeepEq(_, _)
\* deep equality of two documents: numbers by value, objects as maps
DeepEq(a, b) ==
    CASE a[1] \in {"int", "float"} /\ b[1] \in {"int", "float"} -> Num(a) = Num(b)
      [] a[1] # b[1] \/ a[1] = "nan" -> FALSE
      [] a[1] = "null" -> TRUE
      [] a[1] = "arr" ->
           /\ Len(a[2]) = Len(b[2])
           /\ \A i \in 1..Len(a[2]) : DeepEq(a[2][i], b[2][i])
      [] a[1] = "obj" ->
           /\ Keys(a[2]) = Keys(b[2])
           /\ \A i \in 1..Len(a[2]) : DeepEq(a[2][i][2], Lookup(b[2], a[2][i][1], 1))
      [] OTHER -> a[2] = b[2]

NumericSave == IsSave(req) /\ req.cl[1] = "num"
ExactSave == IsSave(req) /\ req.cl = Length(Len(req.body))
IsErrorBody(body) == Len(body) = 6 /\ body[2] = "\"error\"" /\ body[5] # "\"\""
\* the text the server writes for request bytes it accepts
TextOf(data) == json_dump(json_loads(data).val)

\* ------------------------------------------------------------------ claims
\* C1: a POST of any JSON document D to /save-config with an exact
\* Content-Length and no write failure is answered 200, application/json,
\* {"success": true}, and config.json then parses as JSON to a value
\* deep-equal to D.
C1_RoundTrip ==
    (ExactSave /\ ValidBody(req.body) /\ disk = DiskOK) =>
        /\ resp = Success
        /\ file.exists
        /\ IsJSONText(file.text)
        /\ DeepEq(Document(file.text), Document(req.body))

\* C2: a POST to /save-config whose body, of the declared length, is not
\* valid JSON text is answered 500 with a JSON body holding a non-empty
\* error message, and config.json is as it was before the request.
C2_InvalidRejected ==
    (NumericSave /\ ~ValidBody(DataOf(req))) =>
        /\ resp.status = 500
        /\ IsErrorBody(resp.body)
        /\ file = prev.file

\* C3: every failure of a POST to /save-config (Content-Length absent or
\* not a number, malformed body, filesystem error) is answered 500,
\* application/json, {"error": <message>}.
C3_UniformFailure ==
    (IsSave(req)
       /\ (req.cl[1] # "num" \/ ~Parsed[DataOf(req)].ok \/ disk # DiskOK)) =>
        /\ resp.status = 500
        /\ resp.ctype = "application/json"
        /\ IsErrorBody(resp.body)

\* C4: a POST to any path other than /save-config, whatever its headers and
\* body, is answered 404 with an empty body; nothing is read from the body
\* and config.json is unchanged.
C4_OtherPathNotFound ==
    (req.method = "POST" /\ req.path # SaveRoute) =>
        /\ resp = NotFound
        /\ consumed = 0
        /\ file = prev.file

C4_Witness ==
    /\ req = Request("POST", "/save-config/", NotANumber, DocA)
    /\ resp = NotFound
    /\ file.exists

\* C5: after a successful save config.json holds the document of that save
\* alone: it is exactly the text written for it and reads back as it, with
\* nothing left of the document saved before.
C5_LastSaveOnly ==
    (IsSave(req) /\ resp.status = 200) =>
        /\ file.exists
        /\ file.text = TextOf(DataOf(req))
        /\ json_loads(file.text).ok
        /\ json_loads(file.text).val = json_loads(DataOf(req)).val

C5_Witness ==
    /\ prev.kind = "saved"
    /\ prev.file.text = TextOf(DocA)
    /\ ExactSave /\ req.body = DocB /\ resp = Success
    /\ file.text = <<"{", "\n", "  ", "\"b\"", ":", " ", "2", "\n", "}">>

C7_Idempotent ==
    [][(IsSave(req) /\ resp = Success /\ req' = req /\ disk' = DiskOK) =>
          /\ resp' = resp
          /\ file' = file
          /\ file' = do_POST(NoFile, req', DiskOK).file]_vars

C7_Witness ==
    /\ prev.kind = "saved"
    /\ ExactSave /\ req.body = DocAB /\ resp = Success
    /\ file = prev.file

\* C8: when two valid saves were in flight together and both are answered
\* 200, config.json is the complete text of the save whose write completed
\* last and reads back as its document: never a mixture of the two.
C8_LastWriteWins ==
    (\A k \in Clients : conn[k].pc = "done" /\ conn[k].resp.status = 200) =>
        /\ Len(order) = 2
        /\ LET last == conn[order[2]].data IN
           /\ file.exists
           /\ file.text = TextOf(last)
           /\ json_loads(file.text).ok
           /\ json_loads(file.text).val = json_loads(last).val

C8_Witness ==
    /\ overlap
    /\ \A k \in Clients : conn[k].pc = "done" /\ conn[k].resp = Success
    /\ conn[1].data = DocAB /\ conn[2].data = DocA
    /\ order = <<1, 2>>
    /\ file.text = TextOf(DocA)

\* C9: after a request that failed (500, or an exception that closed the
\* connection unanswered) the server is still running, and any valid save
\* that follows is answered 200 and leaves exactly what it would have left
\* had the failed request not been made.
C9_FailureContained ==
    (req # NoRequest /\ resp.status \in {0, 500}) =>
        /\ running
        /\ \A r \in SaveRequests :
             Parsed[r.body].ok =>
                LET after == handle_one_request(file, r, DiskOK)
                    without == handle_one_request(prev.file, r, DiskOK)
                IN  after.resp = Success /\ after = without

C9_Witness ==
    /\ prev.kind = "failed"
    /\ prev.file # NoFile /\ ~json_loads(prev.file.text).ok
    /\ running
    /\ ExactSave /\ req.body = DocA /\ resp = Success
    /\ file.text = TextOf(DocA)

\* C10: when a request is answered 200, config.json had been written in
\* full and closed with that request's document before the status went
\* out, and neither its parse nor its write had failed.
C10_SavedBeforeSuccess ==
    \A k \in Clients :
        conn[k].resp.status = 200 =>
            /\ conn[k].disk = DiskOK
            /\ Parsed[conn[k].data].ok
            /\ conn[k].seen = [exists |-> TRUE, text |-> TextOf(conn[k].data)]

C10_Witness ==
    \E k \in Clients :
        /\ conn[k].resp = Success
        /\ conn[k].data = DocAB
        /\ conn[k].seen.text = TextOf(DocAB)
====
